---- MODULE Spec2Model ----
(***************************************************************************)
(* ClassCom API (src/main.py): request handlers over a document store.     *)
(*                                                                         *)
(* The store is five collections (student, subject, presentation, message, *)
(* meta), each a sequence of documents in insertion order.  A handler is   *)
(* one action: it reads its inputs, performs its store operations and      *)
(* leaves the request together with the HTTP response in `response`.       *)
(* A str is a sequence of one-character strings wherever the code          *)
(* transforms it (roll numbers); strings the code only compares are TLA+   *)
(* strings.  Wall-clock timestamps are abstracted: created_at is the       *)
(* insertion number of the document in its collection, updated_at is not   *)
(* kept.                                                                   *)
(***************************************************************************)
EXTENDS Naturals, Sequences, FiniteSets

VARIABLES
    db,            \* TRUE iff the store handle `db` is not None
    started,       \* TRUE once the startup event has run
    student, subject, presentation, message, meta,   \* the collections
    uniqueIdx,     \* collections whose unique index exists in the store
    nextOid,       \* per collection: number of ObjectIds generated so far
    response,      \* the last request with its HTTP response
    inflight       \* concurrent login requests between store round trips

vars == <<db, started, student, subject, presentation, message, meta,
          uniqueIdx, nextOid, response, inflight>>

store == <<student, subject, presentation, message, meta, uniqueIdx, nextOid>>

(***************************************************************************)
(* Bounds of the model.                                                    *)
(***************************************************************************)
MaxCreatedPresentations == 1
MaxCreatedMessages == 2
NumWorkers == 2
MaxStudentInserts == 2

(***************************************************************************)
(* Values.                                                                 *)
(***************************************************************************)
None == "null"                 \* Python None in a string-typed field
NoneStr == <<"null">>          \* Python None in a str modelled as a sequence

ADMIN_PASSWORD == "admin123"

Collections == {"student", "subject", "presentation", "message", "meta"}

\* str.strip(): drop leading and trailing whitespace.
Whitespace == {" ", "\t"}

RECURSIVE lstrip(_)
lstrip(s) ==
    IF s = <<>> THEN s
    ELSE IF Head(s) \in Whitespace THEN lstrip(Tail(s)) ELSE s

RECURSIVE rstrip(_)
rstrip(s) ==
    IF s = <<>> THEN s
    ELSE IF s[Len(s)] \in Whitespace THEN rstrip(SubSeq(s, 1, Len(s) - 1)) ELSE s

strip(s) == rstrip(lstrip(s))

\* str.upper(): lower-case letters map to their capitals, all else is kept.
upperChar(c) ==
    CASE c = "a" -> "A" [] c = "d" -> "D" [] c = "m" -> "M" [] c = "i" -> "I"
      [] c = "n" -> "N" [] c = "s" -> "S" [] OTHER -> c

upper(s) == [i \in 1..Len(s) |-> upperChar(s[i])]

\* payload.roll_number.strip().upper()
NormalizeRoll(raw) == upper(strip(raw))

\* str(ObjectId) and ObjectId(str): the n-th generated id prints as <<"oid", n>>;
\* any other string is rejected by ObjectId().
str(n) == <<"oid", n>>
WellFormedId(s) == s[1] = "oid"

\* oid(s): the ObjectId, or HTTP 400 "Invalid ID".  (ObjectId is never None:
\* bson ships with pymongo, which the store adapter itself needs.)
oid(s) == IF WellFormedId(s) THEN [ok |-> TRUE, value |-> s[2], status |-> 200]
          ELSE [ok |-> FALSE, value |-> 0, status |-> 400]

(***************************************************************************)
(* Store operations.                                                       *)
(***************************************************************************)
find(coll, field, v) == SelectSeq(coll, LAMBDA d : d[field] = v)

count_documents(coll, field, v) == Len(find(coll, field, v))

\* insert with the collection's unique index (when it exists) on `field`:
\* a duplicate key raises.
DuplicateKey(coll, name, field, doc, idx) ==
    name \in idx /\ find(coll, field, doc[field]) # <<>>

\* create_document(collection, data): stamps and inserts, returns the new id.
Stamp(doc, n) ==
    [k \in DOMAIN doc \cup {"_id", "created_at"} |->
        IF k = "_id" THEN n ELSE IF k = "created_at" THEN n ELSE doc[k]]

create_document(coll, doc, n) == Append(coll, Stamp(doc, n))

\* d["id"] = str(d.pop("_id"))
Public(d) ==
    [k \in (DOMAIN d \ {"_id"}) \cup {"id"} |->
        IF k = "id" THEN str(d._id) ELSE d[k]]

PublicAll(docs) == [i \in 1..Len(docs) |-> Public(docs[i])]

(***************************************************************************)
(* Request inputs.                                                         *)
(***************************************************************************)
RollInputs ==
    { <<"s", "1">>, <<" ", "S", "1", " ">>, <<"a", "d", "m", "i", "n">>,
      <<"\t", "A", "d", "m", "i", "n">>, <<"S", "2">> }

PasswordInputs == {None, ADMIN_PASSWORD, "letmein", "ADMIN123", "", "admin"}

LoginRequest == [roll_number : RollInputs, password : PasswordInputs]

NoRequest == [op |-> "none", req |-> <<>>, status |-> 0, body |-> <<>>]

Reply(op, req, status, body) ==
    [op |-> op, req |-> req, status |-> status, body |-> body]

\* require_db(): HTTP 503 when the store handle is None.
StoreUnavailableCrash(op, req) == Reply(op, req, 500, "NoneType is not subscriptable")
StoreUnavailable(op, req) == Reply(op, req, 503, "Database not configured")

(***************************************************************************)
(* Startup: ensure_indexes() then seed_data().  Both swallow every store   *)
(* error, so either may stop part-way: ixOk is the number of unique-index  *)
(* creations that succeed before the store raises, k the number of seed    *)
(* inserts that succeed before it raises.  Store errors are modelled at    *)
(* startup only; a handler's store operations succeed, save for a          *)
(* duplicate key under a unique index.                                     *)
(***************************************************************************)
ADMIN == <<"A", "D", "M", "I", "N">>

DefaultSubjects ==
    << [code |-> "CS101", acronym |-> "CS", title |-> "Computer Science Basics",
        syllabus |-> <<"Intro to CS", "Algorithms", "Data Structures">>],
       [code |-> "MA101", acronym |-> "MA", title |-> "Calculus I",
        syllabus |-> <<"Limits", "Derivatives", "Integrals">>],
       [code |-> "PH101", acronym |-> "PH", title |-> "Physics I",
        syllabus |-> <<"Kinematics", "Dynamics", "Work & Energy">>] >>

SeedLink(ac) ==
    CASE ac = "CS" -> "https://forms.gle/your-cs-form"
      [] ac = "MA" -> "https://forms.gle/your-ma-form"
      [] ac = "PH" -> "https://forms.gle/your-ph-form"
      [] OTHER -> None

SeedPresentation(code, ac, t) ==
    [subject_code |-> code, subject_acronym |-> ac, topic |-> t,
     assigned_to |-> NoneStr, due_date |-> None, status |-> "upcoming",
     submission_link |-> SeedLink(ac)]

DefaultPresentations ==
    << SeedPresentation("CS101", "CS", "Sorting Algorithms"),
       SeedPresentation("CS101", "CS", "Big-O Notation"),
       SeedPresentation("CS101", "CS", "Hash Tables"),
       SeedPresentation("MA101", "MA", "Limits in Depth"),
       SeedPresentation("MA101", "MA", "Chain Rule"),
       SeedPresentation("MA101", "MA", "Area under Curve"),
       SeedPresentation("PH101", "PH", "Projectile Motion"),
       SeedPresentation("PH101", "PH", "Newton's Laws"),
       SeedPresentation("PH101", "PH", "Energy Conservation") >>

DefaultAdmin ==
    [roll_number |-> ADMIN, name |-> "Administrator", is_admin |-> TRUE,
     is_active |-> TRUE]

NoDuplicates(coll, field) ==
    \A i, j \in 1..Len(coll) : coll[i][field] = coll[j][field] => i = j

\* The unique indexes that exist after ensure_indexes(): creating a unique
\* index over duplicate keys raises, and a raise skips the rest.
ensure_indexes(ixOk) ==
    LET stuOk == ixOk >= 1 /\ NoDuplicates(student, "roll_number")
        subOk == stuOk /\ ixOk >= 2 /\ NoDuplicates(subject, "code")
    IN  uniqueIdx \cup (IF stuOk THEN {"student"} ELSE {})
                  \cup (IF subOk THEN {"subject"} ELSE {})

\* The seed conditions of seed_data().
SubjectSeedDueFewer(coll) == Len(coll) < Len(DefaultSubjects)
SubjectSeedDue(coll) == Len(coll) = 0
PresentationSeedDue(coll) == Len(coll) = 0
AdminSeedDue(coll) == count_documents(coll, "roll_number", ADMIN) = 0

\* The inserts seed_data() makes when the store never raises, in order.
SeedSubjects == IF SubjectSeedDue(subject) THEN DefaultSubjects ELSE <<>>
SeedPresentations ==
    IF PresentationSeedDue(presentation) THEN DefaultPresentations ELSE <<>>
SeedStudents == IF AdminSeedDue(student) THEN <<DefaultAdmin>> ELSE <<>>

SeedLen == Len(SeedSubjects) + Len(SeedPresentations) + Len(SeedStudents)

Min(a, b) == IF a <= b THEN a ELSE b

\* create_document() for the first m documents of docs.
InsertFirst(coll, docs, m, n0) ==
    coll \o [i \in 1..m |-> Stamp(docs[i], n0 + i)]

\* Seed inserts that succeed before the store raises, among the inputs tried.
SeedFaultPoints == {0, 2, 7}

on_startup(ixOk, k) ==
    /\ response' = Reply("on_startup", <<>>, 0, [seeded |-> db /\ k = SeedLen])
    /\ started' = TRUE
    /\ UNCHANGED <<db, message, meta, inflight>>
    /\ IF ~db
       THEN UNCHANGED <<student, subject, presentation, uniqueIdx, nextOid>>
       ELSE LET nS == Min(k, Len(SeedSubjects))
                nP == Min(k - nS, Len(SeedPresentations))
                nA == Min(k - nS - nP, Len(SeedStudents))
            IN  /\ uniqueIdx' = ensure_indexes(ixOk)
                /\ subject' = InsertFirst(subject, SeedSubjects, nS, nextOid.subject)
                /\ presentation' = InsertFirst(presentation, SeedPresentations, nP,
                                               nextOid.presentation)
                /\ student' = InsertFirst(student, SeedStudents, nA, nextOid.student)
                /\ nextOid' = [nextOid EXCEPT !.subject = @ + nS,
                                              !.presentation = @ + nP,
                                              !.student = @ + nA]

Startup ==
    /\ \A w \in DOMAIN inflight : inflight[w].pc = "idle"
    /\ \E ixOk \in 0..2 : \E k \in (SeedFaultPoints \cup {SeedLen}) :
          k <= SeedLen /\ on_startup(ixOk, k)

\* The startup in which the store raises nothing.
StartupOk == on_startup(2, SeedLen)

(***************************************************************************)
(* POST /api/login                                                         *)
(***************************************************************************)
NewStudent(roll) ==
    [roll_number |-> roll, name |-> None, is_admin |-> FALSE, is_active |-> TRUE]

\* Lines 194-195: the lookup by normalised roll number.
login_find_one_raw(coll, payload) == find(coll, "roll_number", payload.roll_number)
login_find_one(coll, payload) ==
    find(coll, "roll_number", NormalizeRoll(payload.roll_number))

\* The response for the resolved record stu (lines 201-214).
LoginReplyNoPassword(payload, roll, stu) ==
    Reply("login", payload, 200,
          [roll_number |-> roll, name |-> stu.name,
           role |-> IF stu.is_admin THEN "admin" ELSE "student",
           is_admin |-> stu.is_admin])
LoginReply(payload, roll, stu) ==
    IF stu.is_admin
    THEN IF payload.password # ADMIN_PASSWORD
         THEN Reply("login", payload, 401, "Admin password required or incorrect")
         ELSE Reply("login", payload, 200,
                    [roll_number |-> roll, name |-> stu.name, role |-> "admin",
                     is_admin |-> TRUE])
    ELSE Reply("login", payload, 200,
               [roll_number |-> roll, name |-> stu.name, role |-> "student",
                is_admin |-> FALSE])

login(payload) ==
    /\ UNCHANGED <<db, started, subject, presentation, message, meta, uniqueIdx,
                   inflight>>
    /\ IF ~db
       THEN /\ response' = StoreUnavailable("login", payload)
            /\ UNCHANGED <<student, nextOid>>
       ELSE LET roll == NormalizeRoll(payload.roll_number)
                stu == login_find_one(student, payload)
                sid == nextOid.student + 1
                doc == NewStudent(roll)
            IN  IF stu # <<>>
                THEN /\ response' = LoginReply(payload, roll, stu[1])
                     /\ UNCHANGED <<student, nextOid>>
                ELSE IF DuplicateKey(student, "student", "roll_number", doc, uniqueIdx)
                THEN /\ response' = Reply("login", payload, 500, "DuplicateKeyError")
                     /\ UNCHANGED <<student, nextOid>>
                ELSE /\ student' = create_document(student, doc, sid)
                     /\ nextOid' = [nextOid EXCEPT !.student = sid]
                     /\ response' =
                          LoginReply(payload, roll, find(student', "_id", sid)[1])

Login(requests) == started /\ \E payload \in requests : login(payload)

(***************************************************************************)
(* Subjects                                                                *)
(***************************************************************************)
SubjectCreate ==
    [code : {"CS101", "EE101"}, acronym : {"CS", "EE"},
     title : {"Elective", "Electronics"}, syllabus : {<<>>, <<"Circuits">>}]

\* GET /api/subjects
list_subjects ==
    /\ response' = IF ~db THEN Reply("list_subjects", <<>>, 200, <<>>)
                   ELSE Reply("list_subjects", <<>>, 200, PublicAll(subject))
    /\ UNCHANGED <<db, started, store, inflight>>

\* Line 233: is the code taken?
subject_code_exists_by_acronym(coll, sub) == find(coll, "acronym", sub.acronym) # <<>>
subject_code_exists(coll, sub) == find(coll, "code", sub.code) # <<>>

\* POST /api/admin/subjects
create_subject(sub) ==
    /\ UNCHANGED <<db, started, student, presentation, message, meta, uniqueIdx,
                   inflight>>
    /\ IF ~db
       THEN /\ response' = StoreUnavailable("create_subject", sub)
            /\ UNCHANGED <<subject, nextOid>>
       ELSE IF subject_code_exists(subject, sub)
       THEN /\ response' = Reply("create_subject", sub, 400, "Subject code exists")
            /\ UNCHANGED <<subject, nextOid>>
       ELSE IF DuplicateKey(subject, "subject", "code", sub, uniqueIdx)
       THEN /\ response' = Reply("create_subject", sub, 500, "DuplicateKeyError")
            /\ UNCHANGED <<subject, nextOid>>
       ELSE LET sid == nextOid.subject + 1
            IN  /\ subject' = create_document(subject, sub, sid)
                /\ nextOid' = [nextOid EXCEPT !.subject = sid]
                /\ response' = Reply("create_subject", sub, 200,
                                     Public(find(subject', "_id", sid)[1]))

ListSubjects == started /\ list_subjects

CreateSubject(requests) == started /\ \E sub \in requests : create_subject(sub)

(***************************************************************************)
(* Presentations                                                           *)
(***************************************************************************)
\* d.get(field): None when the document has no such key.
get(d, field) == IF field \in DOMAIN d THEN d[field] ELSE None

\* update_one(..., {"$set": {field: v}}) on the documents with _id = n.
set_one(coll, n, field, v) ==
    [i \in 1..Len(coll) |->
        IF coll[i]._id = n
        THEN [k \in DOMAIN coll[i] \cup {field} |-> IF k = field THEN v ELSE coll[i][k]]
        ELSE coll[i]]

\* Query parameter roll_number: absent (None), empty, or a roll number.
RollQueryInputs == RollInputs \cup {NoneStr, <<>>}

\* Ids a client may send: ids the store may have generated, and a string that
\* is no ObjectId.
MalformedId == <<"xyz", 0>>
PresentationIdInputs ==
    {str(1), str(Len(DefaultPresentations) + 1), MalformedId}

StatusInputs == {"upcoming", "completed", "revoked"}

PresentationCreate ==
    [subject_code : {"CS101"}, subject_acronym : {"CS"}, topic : {"Recursion"},
     assigned_to : {NoneStr, <<"s", "1">>, <<"S", "1">>},
     due_date : {None, "2025-01-31"},
     submission_link : {None, "https://forms.gle/x"}]

AssignTopicRequest == [presentation_id : PresentationIdInputs, roll_number : RollInputs]

\* GET /api/presentations
list_presentations(roll_number) ==
    /\ response' =
         IF ~db THEN Reply("list_presentations", roll_number, 200, <<>>)
         ELSE IF roll_number # NoneStr /\ roll_number # <<>>
         THEN Reply("list_presentations", roll_number, 200,
                    PublicAll(SelectSeq(presentation,
                        LAMBDA d : d.assigned_to = NoneStr
                                   \/ d.assigned_to = NormalizeRoll(roll_number))))
         ELSE Reply("list_presentations", roll_number, 200, PublicAll(presentation))
    /\ UNCHANGED <<db, started, store, inflight>>

\* The split of my_presentations (lines 266-269).
UpcomingOnly(docs) == SelectSeq(docs, LAMBDA d : get(d, "status") = "upcoming")
UpcomingOf(docs) == SelectSeq(docs, LAMBDA d : get(d, "status") # "completed")
CompletedOf(docs) == SelectSeq(docs, LAMBDA d : get(d, "status") = "completed")

\* GET /api/presentations/my
my_presentations_body(roll_number) ==
    LET roll == NormalizeRoll(roll_number)
        docs == PublicAll(find(presentation, "assigned_to", roll))
    IN  [upcoming |-> UpcomingOf(docs), completed |-> CompletedOf(docs)]

my_presentations(roll_number) ==
    /\ response' =
         IF ~db THEN Reply("my_presentations", roll_number, 200,
                           [upcoming |-> <<>>, completed |-> <<>>])
         ELSE Reply("my_presentations", roll_number, 200,
                    my_presentations_body(roll_number))
    /\ UNCHANGED <<db, started, store, inflight>>

\* POST /api/admin/presentations
create_presentation(p) ==
    /\ UNCHANGED <<db, started, student, subject, message, meta, uniqueIdx, inflight>>
    /\ IF ~db
       THEN /\ response' = StoreUnavailable("create_presentation", p)
            /\ UNCHANGED <<presentation, nextOid>>
       ELSE LET pid == nextOid.presentation + 1
            IN  /\ presentation' = create_document(presentation, p, pid)
                /\ nextOid' = [nextOid EXCEPT !.presentation = pid]
                /\ response' = Reply("create_presentation", p, 200,
                                     Public(find(presentation', "_id", pid)[1]))

\* PATCH /api/admin/presentations/{presentation_id}
update_presentation_status(presentation_id, status) ==
    LET req == [presentation_id |-> presentation_id, status |-> status]
        id == oid(presentation_id)
    IN  /\ UNCHANGED <<db, started, student, subject, message, meta, uniqueIdx,
                       nextOid, inflight>>
        /\ IF ~db
           THEN /\ response' = StoreUnavailable("update_presentation_status", req)
                /\ UNCHANGED presentation
           ELSE IF ~id.ok
           THEN /\ response' = Reply("update_presentation_status", req, 400, "Invalid ID")
                /\ UNCHANGED presentation
           ELSE IF find(presentation, "_id", id.value) = <<>>
           THEN /\ response' = Reply("update_presentation_status", req, 404,
                                     "Presentation not found")
                /\ UNCHANGED presentation
           ELSE /\ presentation' = set_one(presentation, id.value, "status", status)
                /\ response' = Reply("update_presentation_status", req, 200,
                                     Public(find(presentation', "_id", id.value)[1]))

\* Line 296: is there a student of that roll number?
student_exists_unchecked(coll, roll) == TRUE
student_exists(coll, roll) == find(coll, "roll_number", roll) # <<>>

\* POST /api/admin/assign
assign_topic(payload) ==
    LET roll == NormalizeRoll(payload.roll_number)
        id == oid(payload.presentation_id)
    IN  /\ UNCHANGED <<db, started, student, subject, message, meta, uniqueIdx,
                       nextOid, inflight>>
        /\ IF ~db
           THEN /\ response' = StoreUnavailable("assign_topic", payload)
                /\ UNCHANGED presentation
           ELSE IF ~student_exists(student, roll)
           THEN /\ response' = Reply("assign_topic", payload, 404, "Student not found")
                /\ UNCHANGED presentation
           ELSE IF ~id.ok
           THEN /\ response' = Reply("assign_topic", payload, 400, "Invalid ID")
                /\ UNCHANGED presentation
           ELSE IF find(presentation, "_id", id.value) = <<>>
           THEN /\ response' = Reply("assign_topic", payload, 404,
                                     "Presentation not found")
                /\ UNCHANGED presentation
           ELSE /\ presentation' = set_one(presentation, id.value, "assigned_to", roll)
                /\ response' = Reply("assign_topic", payload, 200,
                                     Public(find(presentation', "_id", id.value)[1]))

ListPresentations(rolls) == started /\ \E r \in rolls : list_presentations(r)

MyPresentations(rolls) == started /\ \E r \in rolls : my_presentations(r)

CreatePresentation(requests) ==
    /\ started
    /\ Len(presentation) < Len(DefaultPresentations) + MaxCreatedPresentations
    /\ \E p \in requests : create_presentation(p)

UpdatePresentationStatus ==
    /\ started
    /\ \E id \in PresentationIdInputs : \E st \in StatusInputs :
          update_presentation_status(id, st)

AssignTopic(requests) == started /\ \E payload \in requests : assign_topic(payload)

(***************************************************************************)
(* Messages                                                                *)
(***************************************************************************)
MessageCreate ==
    [type : {"message", "alert"}, title : {"Exam"}, body : {"Friday"},
     created_by : {None, "ADMIN"}]

MessageIdInputs == {str(n) : n \in 1..(MaxCreatedMessages + 1)} \cup {MalformedId}

\* find().sort("created_at", -1): newest first.
RECURSIVE sort_created_desc(_)
sort_created_desc(docs) ==
    IF docs = <<>> THEN <<>>
    ELSE LET i == CHOOSE i \in 1..Len(docs) :
                     \A j \in 1..Len(docs) :
                        docs[j].created_at < docs[i].created_at \/ (j >= i /\
                        docs[j].created_at = docs[i].created_at)
         IN  <<docs[i]>> \o
             sort_created_desc(SubSeq(docs, 1, i - 1) \o SubSeq(docs, i + 1, Len(docs)))

\* delete_one({"_id": n}): the collection without its first document of that id.
delete_first(coll, n) == Tail(coll)
delete_one(coll, n) ==
    LET hits == {i \in 1..Len(coll) : coll[i]._id = n}
    IN  IF hits = {} THEN coll
        ELSE LET i == CHOOSE i \in hits : \A j \in hits : i <= j
             IN  SubSeq(coll, 1, i - 1) \o SubSeq(coll, i + 1, Len(coll))

\* POST /api/admin/messages
create_message(msg) ==
    /\ UNCHANGED <<db, started, student, subject, presentation, meta, uniqueIdx,
                   inflight>>
    /\ IF ~db
       THEN /\ response' = StoreUnavailable("create_message", msg)
            /\ UNCHANGED <<message, nextOid>>
       ELSE LET mid == nextOid.message + 1
            IN  /\ message' = create_document(message, msg, mid)
                /\ nextOid' = [nextOid EXCEPT !.message = mid]
                /\ response' = Reply("create_message", msg, 200,
                                     Public(find(message', "_id", mid)[1]))

\* GET /api/messages
list_messages ==
    /\ response' = IF ~db THEN Reply("list_messages", <<>>, 200, <<>>)
                   ELSE Reply("list_messages", <<>>, 200,
                              PublicAll(sort_created_desc(message)))
    /\ UNCHANGED <<db, started, store, inflight>>

\* DELETE /api/admin/messages/{message_id}
delete_message(message_id) ==
    LET id == oid(message_id)
    IN  /\ UNCHANGED <<db, started, student, subject, presentation, meta, uniqueIdx,
                       nextOid, inflight>>
        /\ IF ~db
           THEN /\ response' = StoreUnavailable("delete_message", message_id)
                /\ UNCHANGED message
           ELSE IF ~id.ok
           THEN /\ response' = Reply("delete_message", message_id, 400, "Invalid ID")
                /\ UNCHANGED message
           ELSE IF find(message, "_id", id.value) = <<>>
           THEN /\ response' = Reply("delete_message", message_id, 404,
                                     "Message not found")
                /\ UNCHANGED message
           ELSE /\ message' = delete_one(message, id.value)
                /\ response' = Reply("delete_message", message_id, 200,
                                     [deleted |-> TRUE])

CreateMessage(requests) ==
    /\ started
    /\ nextOid.message < MaxCreatedMessages
    /\ \E msg \in requests : create_message(msg)

ListMessages == started /\ list_messages

DeleteMessage == started /\ \E id \in MessageIdInputs : delete_message(id)

(***************************************************************************)
(* POST /api/admin/sync                                                    *)
(***************************************************************************)
\* Lines 344-345: is the flag already set?  (Request-time store errors are not
\* modelled, so the insert of line 348 does not raise.)
already_synced_capital(coll) ==
    LET found == find(coll, "key", "synced")
    IN  found # <<>> /\ get(found[1], "value") = "True"
already_synced(coll) ==
    LET found == find(coll, "key", "synced")
    IN  found # <<>> /\ get(found[1], "value") = "true"

sync_presentations ==
    /\ UNCHANGED <<db, started, student, subject, presentation, message, uniqueIdx,
                   inflight>>
    /\ IF ~db
       THEN /\ response' = Reply("sync_presentations", <<>>, 200,
                                 [synced |-> FALSE, message |-> "Database not configured"])
            /\ UNCHANGED <<meta, nextOid>>
       ELSE IF already_synced(meta)
                THEN /\ response' = Reply("sync_presentations", <<>>, 200,
                                          [synced |-> TRUE, message |-> "Already synced"])
                     /\ UNCHANGED <<meta, nextOid>>
                ELSE /\ meta' = create_document(meta, [key |-> "synced", value |-> "true"],
                                                nextOid.meta + 1)
                     /\ nextOid' = [nextOid EXCEPT !.meta = @ + 1]
                     /\ response' = Reply("sync_presentations", <<>>, 200,
                                          [synced |-> TRUE])

Sync == started /\ sync_presentations

(***************************************************************************)
(* Initial state: the module is imported, the store (when configured) is a *)
(* fresh database, and the startup event has not run yet.                  *)
(***************************************************************************)
Workers == 1..NumWorkers

Idle == [pc |-> "idle", payload |-> <<>>, sid |-> 0]

Init ==
    /\ db \in BOOLEAN
    /\ started = FALSE
    /\ student = <<>> /\ subject = <<>> /\ presentation = <<>>
    /\ message = <<>> /\ meta = <<>>
    /\ uniqueIdx = {}
    /\ nextOid = [c \in Collections |-> 0]
    /\ response = NoRequest
    /\ inflight = [w \in Workers |-> Idle]

(***************************************************************************)
(* Concurrent logins: the hosting runtime runs requests on a worker pool,  *)
(* and each store operation of login is a round trip of its own.           *)
(***************************************************************************)
\* Lines 193-196: require_db(), normalise, find_one.
login_find(w, payload) ==
    /\ inflight[w].pc = "idle"
    /\ UNCHANGED <<db, started, store>>
    /\ IF ~db
       THEN /\ response' = StoreUnavailable("login", payload)
            /\ UNCHANGED inflight
       ELSE LET roll == NormalizeRoll(payload.roll_number)
                stu == login_find_one(student, payload)
            IN  IF stu # <<>>
                THEN /\ response' = LoginReply(payload, roll, stu[1])
                     /\ UNCHANGED inflight
                ELSE /\ inflight' = [inflight EXCEPT ![w] =
                                        [pc |-> "insert", payload |-> payload, sid |-> 0]]
                     /\ UNCHANGED response

\* Line 198: create_document.
login_insert(w) ==
    LET payload == inflight[w].payload
        doc == NewStudent(NormalizeRoll(payload.roll_number))
        sid == nextOid.student + 1
    IN  /\ inflight[w].pc = "insert"
        /\ UNCHANGED <<db, started, subject, presentation, message, meta, uniqueIdx>>
        /\ IF DuplicateKey(student, "student", "roll_number", doc, uniqueIdx)
           THEN /\ response' = Reply("login", payload, 500, "DuplicateKeyError")
                /\ inflight' = [inflight EXCEPT ![w] = Idle]
                /\ UNCHANGED <<student, nextOid>>
           ELSE /\ student' = create_document(student, doc, sid)
                /\ nextOid' = [nextOid EXCEPT !.student = sid]
                /\ inflight' = [inflight EXCEPT ![w].pc = "refetch", ![w].sid = sid]
                /\ UNCHANGED response

\* Lines 199-214: find_one by _id and the reply.
login_refetch(w) ==
    LET payload == inflight[w].payload
    IN  /\ inflight[w].pc = "refetch"
        /\ UNCHANGED <<db, started, store>>
        /\ response' = LoginReply(payload, NormalizeRoll(payload.roll_number),
                                  find(student, "_id", inflight[w].sid)[1])
        /\ inflight' = [inflight EXCEPT ![w] = Idle]

LoginFind(requests) ==
    /\ started
    /\ nextOid.student < MaxStudentInserts
    /\ \E w \in Workers : \E payload \in requests : login_find(w, payload)

LoginInsert == \E w \in Workers : login_insert(w)

LoginRefetch == \E w \in Workers : login_refetch(w)

(***************************************************************************)
(* Specifications.  The handlers of one area touch only that area's        *)
(* collections, so each area is explored with startup and its own          *)
(* handlers, on the inputs that matter to it.                              *)
(***************************************************************************)
AuthLogins ==
    [roll_number : {<<"s", "1">>, <<" ", "S", "1", " ">>, <<"a", "d", "m", "i", "n">>,
                    <<"\t", "A", "d", "m", "i", "n">>},
     password : {None, ADMIN_PASSWORD, "letmein"}]

NextAuth == Startup \/ Login(AuthLogins)

SubjectCreates ==
    [code : {"CS101", "EE101"}, acronym : {"CS", "EE"}, title : {"Elective"},
     syllabus : {<<>>}]

NextSubjects == Startup \/ ListSubjects \/ CreateSubject(SubjectCreates)

\* Here login only registers the student S1; S2 never registers.
Registrations == [roll_number : {<<"s", "1">>}, password : {None}]
AssignRolls == {<<" ", "S", "1", " ">>, <<"a", "d", "m", "i", "n">>, <<"S", "2">>}
PresentationCreates ==
    [subject_code : {"CS101"}, subject_acronym : {"CS"}, topic : {"Recursion"},
     assigned_to : {NoneStr, <<"s", "1">>, <<"S", "1">>}, due_date : {None},
     submission_link : {None}]

NextPresentations ==
    \/ StartupOk
    \/ Login(Registrations)
    \/ ListPresentations({NoneStr, <<>>, <<"s", "1">>})
    \/ MyPresentations(AssignRolls)
    \/ CreatePresentation(PresentationCreates)
    \/ UpdatePresentationStatus
    \/ AssignTopic([presentation_id : PresentationIdInputs, roll_number : AssignRolls])

MessageCreates ==
    [type : {"message", "alert"}, title : {"Exam"}, body : {"Friday"},
     created_by : {None}]

NextMessages ==
    Startup \/ CreateMessage(MessageCreates) \/ ListMessages \/ DeleteMessage \/ Sync

\* Every handler on every input.
Next ==
    \/ Startup
    \/ Login(LoginRequest)
    \/ ListSubjects
    \/ CreateSubject(SubjectCreate)
    \/ ListPresentations(RollQueryInputs)
    \/ MyPresentations(RollInputs)
    \/ CreatePresentation(PresentationCreate)
    \/ UpdatePresentationStatus
    \/ AssignTopic(AssignTopicRequest)
    \/ CreateMessage(MessageCreate)
    \/ ListMessages
    \/ DeleteMessage
    \/ Sync

ConcurrentLogins ==
    [roll_number : {<<"s", "1">>, <<" ", "S", "1", " ">>}, password : {None}]

NextConcurrent ==
    Startup \/ LoginFind(ConcurrentLogins) \/ LoginInsert \/ LoginRefetch

InitStore == Init /\ db

InitNoStore == Init /\ ~db

SpecAuth == Init /\ [][NextAuth]_vars

SpecSubjects == Init /\ [][NextSubjects]_vars

SpecPresentations == InitStore /\ [][NextPresentations]_vars

SpecMessages == Init /\ [][NextMessages]_vars

\* Every handler, with no store connection configured.
SpecNoStore == InitNoStore /\ [][Next]_vars

SpecConcurrent == InitStore /\ [][NextConcurrent]_vars
(***************************************************************************)
(* Properties.                                                             *)
(***************************************************************************)
S1 == <<"S", "1">>

Ids(coll) == {coll[i]._id : i \in 1..Len(coll)}

RollOf(resp) == NormalizeRoll(resp.req.roll_number)

\* C1: two successive logins whose roll numbers normalise to the same new R
\* leave exactly one Student with roll number R: a login of an unknown R
\* succeeds and inserts exactly one record, a login that directly follows a
\* login of the same R inserts nothing, and after any login there is exactly
\* one record of its roll number.
C1_LoginTwiceOneStudent ==
    [][ (db /\ response'.op = "login") =>
          /\ response'.status \in {200, 401}
          /\ count_documents(student', "roll_number", RollOf(response')) = 1
          /\ (count_documents(student, "roll_number", RollOf(response')) = 0
                => /\ response'.status = 200
                   /\ Len(student') = Len(student) + 1)
          /\ ((response.op = "login" /\ RollOf(response) = RollOf(response'))
                => student' = student) ]_vars

C1_Witness ==
    /\ response.op = "login" /\ response.status = 200
    /\ response.req.roll_number = <<" ", "S", "1", " ">>
    /\ count_documents(student, "roll_number", S1) = 1
    /\ Len(student) = 1

\* C2: when the Student record a login resolves has is_admin = TRUE, the call
\* succeeds with role admin exactly when the password is the admin secret and
\* fails with 401 otherwise; no login returns is_admin = TRUE without the
\* matching password.
C2_AdminNeedsPassword ==
    (db /\ response.op = "login" /\ response.status # 500) =>
        LET stu == find(student, "roll_number", RollOf(response))[1]
        IN  /\ stu.is_admin =>
                IF response.req.password = ADMIN_PASSWORD
                THEN response.status = 200 /\ response.body.role = "admin"
                ELSE response.status = 401
            /\ (response.status = 200 /\ response.body.is_admin)
                  => response.req.password = ADMIN_PASSWORD
            /\ ~stu.is_admin => response.status = 200 /\ ~response.body.is_admin

C2_Witness ==
    /\ response.op = "login" /\ response.status = 401
    /\ response.req.password = "letmein"
    /\ RollOf(response) = ADMIN

\* C3 as stated: with no store configured every handler answers 503.
Handlers ==
    {"login", "list_subjects", "create_subject", "list_presentations",
     "my_presentations", "create_presentation", "update_presentation_status",
     "assign_topic", "create_message", "list_messages", "delete_message",
     "sync_presentations"}

C3_Original == (~db /\ response.op \in Handlers) => response.status = 503

\* C3 (amended): with no store configured, login and the admin
\* create/update/assign/delete handlers answer 503; the listing handlers
\* answer 200 with an empty result and sync answers 200 with synced = FALSE;
\* no handler touches the store.
C3_NoStoreResponses ==
    ~db =>
      /\ store = <<<<>>, <<>>, <<>>, <<>>, <<>>, {}, [c \in Collections |-> 0]>>
      /\ response.op \in {"login", "create_subject", "create_presentation",
                          "update_presentation_status", "assign_topic",
                          "create_message", "delete_message"}
            => response.status = 503
      /\ response.op \in {"list_subjects", "list_presentations", "list_messages"}
            => response.status = 200 /\ response.body = <<>>
      /\ response.op = "my_presentations"
            => /\ response.status = 200
               /\ response.body = [upcoming |-> <<>>, completed |-> <<>>]
      /\ response.op = "sync_presentations"
            => response.status = 200 /\ ~response.body.synced

C3_Witness ==
    /\ ~db /\ response.op = "assign_topic" /\ response.status = 503

\* C4: with a store, an assign call whose normalised roll number matches no
\* Student answers 404 whatever the presentation_id (well-formed or not, known
\* or not) and leaves every Presentation unchanged.
C4_AssignUnknownStudent ==
    [][ (db /\ response'.op = "assign_topic"
            /\ find(student, "roll_number", RollOf(response')) = <<>>)
          => /\ response'.status = 404
             /\ presentation' = presentation ]_vars

C4_Witness ==
    /\ response.op = "assign_topic" /\ response.status = 404
    /\ response.req.presentation_id = str(1)
    /\ find(presentation, "_id", 1) # <<>>
    /\ find(student, "roll_number", RollOf(response)) = <<>>

\* C5: with a store, a create-subject call whose code is the code of a Subject
\* in the store answers 400 and leaves the subject collection unchanged, and
\* no two Subjects ever share a code.
C5_DuplicateSubjectCode ==
    /\ [] NoDuplicates(subject, "code")
    /\ [][ (db /\ response'.op = "create_subject"
               /\ find(subject, "code", response'.req.code) # <<>>)
             => /\ response'.status = 400
                /\ subject' = subject ]_vars

C5_Witness ==
    /\ response.op = "create_subject" /\ response.status = 400
    /\ response.req.code = "CS101" /\ response.req.acronym = "EE"
    /\ Len(subject) = Len(DefaultSubjects)

\* C6: with a store, deleting a well-formed Message id that is not in the
\* store answers 404 and changes nothing (a string that is no id answers 400
\* and changes nothing); deleting an id that is in the store answers
\* {deleted: TRUE} and removes exactly that message; a removed id never comes
\* back, and every listing shows exactly the messages in the store.
Without(coll, n) == SelectSeq(coll, LAMBDA d : d._id # n)

C6_DeleteMessage ==
    /\ [][ (db /\ response'.op = "delete_message") =>
             LET given == response'.req
             IN  IF ~WellFormedId(given)
                 THEN response'.status = 400 /\ message' = message
                 ELSE IF given[2] \notin Ids(message)
                 THEN response'.status = 404 /\ message' = message
                 ELSE /\ response'.status = 200
                      /\ response'.body = [deleted |-> TRUE]
                      /\ message' = Without(message, given[2])
                      /\ Len(message') = Len(message) - 1 ]_vars
    /\ [][ \A n \in 1..nextOid.message :
              n \notin Ids(message) => n \notin Ids(message') ]_vars
    /\ [] ((db /\ response.op = "list_messages") =>
              /\ Len(response.body) = Len(message)
              /\ {response.body[i].id : i \in 1..Len(response.body)}
                    = {str(n) : n \in Ids(message)})

C6_Witness ==
    /\ response.op = "list_messages"
    /\ nextOid.message = 2
    /\ Ids(message) = {2}
    /\ Len(response.body) = 1

\* C7: with a store, every sync call reports synced = TRUE and leaves Meta
\* holding key synced with value true, and a sync call that directly follows
\* a sync call writes nothing.
MetaSynced(coll) ==
    \E i \in 1..Len(coll) : coll[i].key = "synced" /\ coll[i].value = "true"

Occurrences(list, id) == Len(SelectSeq(list, LAMBDA d : d.id = id))

Partitioned(roll_number, body) ==
    \A i \in 1..Len(presentation) :
        LET d == presentation[i]
            up == Occurrences(body.upcoming, str(d._id))
            done == Occurrences(body.completed, str(d._id))
        IN  IF d.assigned_to = NormalizeRoll(roll_number)
            THEN IF get(d, "status") = "completed"
                 THEN up = 0 /\ done = 1
                 ELSE up = 1 /\ done = 0
            ELSE up = 0 /\ done = 0

C8_MyPresentationsPartition ==
    /\ \A r \in RollInputs : Partitioned(r, my_presentations_body(r))
    /\ (db /\ response.op = "my_presentations")
          => Partitioned(response.req, response.body)

C8_Witness ==
    /\ response.op = "my_presentations"
    /\ Len(response.body.completed) = 1
    /\ Len(response.body.upcoming) = 1
    /\ get(response.body.upcoming[1], "status") = "revoked"

\* C9 as stated: bootstrap inserts into a collection only when that
\* collection is empty.
C9_Original ==
    [][ response'.op = "on_startup" =>
          /\ (subject' # subject => subject = <<>>)
          /\ (presentation' # presentation => presentation = <<>>)
          /\ (student' # student => student = <<>>) ]_vars

\* C9 (amended): bootstrap inserts default subjects only when the subject
\* collection is empty, default presentations only when the presentation
\* collection is empty, and the default admin only when no Student has roll
\* number ADMIN (the student collection may be non-empty); a bootstrap that
\* follows a completed one, or finds none of the three conditions, inserts
\* nothing.
C9_BootstrapIdempotent ==
    [][ response'.op = "on_startup" =>
          /\ (subject' # subject => subject = <<>>)
          /\ (presentation' # presentation => presentation = <<>>)
          /\ (student' # student
                => count_documents(student, "roll_number", ADMIN) = 0)
          /\ ((response.op = "on_startup" /\ response.body.seeded)
                => <<student', subject', presentation'>>
                     = <<student, subject, presentation>>)
          /\ ((/\ subject # <<>> /\ presentation # <<>>
               /\ count_documents(student, "roll_number", ADMIN) > 0)
                => <<student', subject', presentation'>>
                     = <<student, subject, presentation>>) ]_vars

C9_Witness ==
    /\ response.op = "on_startup"
    /\ Len(student) = 2
    /\ student[1].roll_number = S1
    /\ student[2] = Stamp(DefaultAdmin, 2)

\* C10 as stated: no two Student records share a roll number, under any
\* interleaving of concurrent logins.
C10_StudentRollUnique == NoDuplicates(student, "roll_number")
====
